---------------------------- MODULE Spec2Model ----------------------------
(***************************************************************************)
(* Model of the three-stage document pipeline of problem3:                 *)
(*   fetcher/fetch.py -> processor/process.py -> analyzer/analyze.py       *)
(* The stages are independent processes that share the /shared directory   *)
(* tree and synchronise only through marker files.                         *)
(*                                                                         *)
(* A text is a sequence of characters, a character a one-character string. *)
(* A Python float that is the quotient of two integers is kept as the      *)
(* reduced fraction [num, den]; a value rounded to 3 decimals is kept as   *)
(* an integer number of thousandths.                                       *)
(***************************************************************************)
EXTENDS Integers, Sequences, FiniteSets, TLC

(***************************************************************************)
(* Bounds of the model                                                     *)
(***************************************************************************)
\* total number of characters of the texts of a corpus built in SpecCorpus
MaxChars == 4
\* number of documents of a corpus built in SpecCorpus
MaxDocs == 3
\* number of lines of /shared/input/urls.txt
MaxUrls == 2
\* number of pieces of a document built in SpecHtml
MaxPieces == 3

(***************************************************************************)
(* Characters                                                              *)
(***************************************************************************)
LowerSeq == << "a", "b", "c", "d", "e", "f", "g", "h", "i", "j", "k", "l", "m",
               "n", "o", "p", "q", "r", "s", "t", "u", "v", "w", "x", "y", "z" >>
UpperSeq == << "A", "B", "C", "D", "E", "F", "G", "H", "I", "J", "K", "L", "M",
               "N", "O", "P", "Q", "R", "S", "T", "U", "V", "W", "X", "Y", "Z" >>
DigitSeq == << "0", "1", "2", "3", "4", "5", "6", "7", "8", "9" >>

Range(s) == { s[i] : i \in DOMAIN s }

IndexOf(s, c) == CHOOSE i \in DOMAIN s : s[i] = c

\* the characters \w matches (ASCII part)
WordChars == Range(LowerSeq) \cup Range(UpperSeq) \cup Range(DigitSeq) \cup {"_"}

\* the characters \s matches (those the model uses)
Whitespace == { " ", "\n", "\t" }

\* the characters of [.!?]
SentenceEnd == { ".", "!", "?" }

\* the characters str.lower() changes (ASCII part)
UpperChars == Range(UpperSeq)

\* str.lower() on one character
LowerChar(c) == IF c \in UpperChars THEN LowerSeq[IndexOf(UpperSeq, c)] ELSE c

\* str.lower()
lower(s) == [ i \in DOMAIN s |-> LowerChar(s[i]) ]

\* the code point of a character: Python orders strings by code point
CodePoint(c) ==
    CASE c \in Range(LowerSeq) -> 96 + IndexOf(LowerSeq, c)
      [] c \in Range(UpperSeq) -> 64 + IndexOf(UpperSeq, c)
      [] c \in Range(DigitSeq) -> 47 + IndexOf(DigitSeq, c)
      [] c = "\t" -> 9
      [] c = "\n" -> 10
      [] c = " " -> 32
      [] c = "!" -> 33
      [] c = "\"" -> 34
      [] c = "'" -> 39
      [] c = "." -> 46
      [] c = "/" -> 47
      [] c = "<" -> 60
      [] c = "=" -> 61
      [] c = ">" -> 62
      [] c = "?" -> 63
      [] c = "_" -> 95

\* s < t for Python strings: the first differing character decides, a proper
\* prefix is smaller
StrLess(s, t) ==
    LET differ == { i \in DOMAIN s \cap DOMAIN t : s[i] # t[i] }
    IN  IF differ = {} THEN Len(s) < Len(t)
        ELSE LET i == CHOOSE i \in differ : \A j \in differ : i <= j
             IN  CodePoint(s[i]) < CodePoint(t[i])

Min(a, b) == IF a < b THEN a ELSE b
Max(a, b) == IF a > b THEN a ELSE b

RECURSIVE GCD(_, _)
GCD(a, b) == IF b = 0 THEN a ELSE GCD(b, a % b)

\* the float n / d (d > 0), as a reduced fraction
Frac(n, d) == LET g == GCD(n, d) IN [ num |-> n \div g, den |-> d \div g ]

\* the float 0.0
Zero == [ num |-> 0, den |-> 1 ]

\* round(n / d, 3) in thousandths (n >= 0, d > 0): the nearest thousandth,
\* an exact half going to the even neighbour
RoundMilli(n, d) ==
    LET q == (1000 * n) \div d
        r == (1000 * n) % d
    IN  IF 2 * r > d \/ (2 * r = d /\ q % 2 = 1) THEN q + 1 ELSE q

(***************************************************************************)
(* analyze.py: the text functions                                          *)
(***************************************************************************)
\* the least index >= i of s that holds a character of set, 0 if there is none
FirstIn(s, i, set) ==
    LET hits == { k \in i .. Len(s) : s[k] \in set }
    IN  IF hits = {} THEN 0 ELSE CHOOSE k \in hits : \A m \in hits : k <= m

\* the end of the maximal run of characters outside set that starts at i
\* (i - 1 when the run is empty)
RunEnd(s, i, set) ==
    LET stop == FirstIn(s, i, set)
    IN  IF stop = 0 THEN Len(s) ELSE stop - 1

\* the k-th smallest element of a set of numbers
Nth(set, k) == CHOOSE p \in set : Cardinality({ q \in set : q < p }) = k - 1

\* re.findall(r"\b\w+\b", s): the maximal runs of word characters of s
WordRuns(s) ==
    LET starts == { i \in DOMAIN s : /\ s[i] \in WordChars
                                     /\ (i = 1 \/ s[i - 1] \notin WordChars) }
        others == { s[i] : i \in DOMAIN s } \ WordChars
    IN  [ k \in 1 .. Cardinality(starts) |->
            SubSeq(s, Nth(starts, k), RunEnd(s, Nth(starts, k), others)) ]

\* the tokens taken as text.lower().split() would
tokenize_split(text) ==
    LET s == lower(text)
        starts == { i \in DOMAIN s : /\ s[i] \notin Whitespace
                                     /\ (i = 1 \/ s[i - 1] \in Whitespace) }
    IN  [ k \in 1 .. Cardinality(starts) |->
            SubSeq(s, Nth(starts, k), RunEnd(s, Nth(starts, k), Whitespace)) ]

tokenize(text) == WordRuns(lower(text))

\* re.split(r'(?<=[.!?])\s+', s): s is cut at every whitespace run that starts
\* right after one of . ! ? ; the pieces, the empty ones included
SplitAfterEnd(s) ==
    LET cuts == { p \in 2 .. Len(s) : s[p] \in Whitespace /\ s[p - 1] \in SentenceEnd }
        n == Cardinality(cuts)
        others == { s[i] : i \in DOMAIN s } \ Whitespace
        from(k) == IF k = 1 THEN 1 ELSE RunEnd(s, Nth(cuts, k - 1), others) + 1
        to(k) == IF k = n + 1 THEN Len(s) ELSE Nth(cuts, k) - 1
    IN  [ k \in 1 .. (n + 1) |-> SubSeq(s, from(k), to(k)) ]

\* s.strip() is not empty
NonBlank(s) == \E i \in DOMAIN s : s[i] \notin Whitespace

split_sentences(text) == SelectSeq(SplitAfterEnd(text), NonBlank)

ngrams(tokens, n) ==
    IF n <= 0 \/ Len(tokens) - n + 1 <= 0 THEN << >>
    ELSE [ i \in 1 .. (Len(tokens) - n + 1) |-> SubSeq(tokens, i, i + n - 1) ]

jaccard_similarity_mutant(doc1_words, doc2_words) ==
    LET set1 == Range(doc1_words)
        set2 == Range(doc2_words)
    IN  IF set1 \cup set2 # {}
        THEN Frac(Cardinality(set1 \cap set2), Max(Cardinality(set1), 1))
        ELSE Zero

jaccard_similarity(doc1_words, doc2_words) ==
    LET set1 == Range(doc1_words)
        set2 == Range(doc2_words)
        intersection == set1 \cap set2
        union == set1 \cup set2
    IN  IF union # {} THEN Frac(Cardinality(intersection), Cardinality(union))
        ELSE Zero

(***************************************************************************)
(* collections.Counter and itertools.combinations                          *)
(***************************************************************************)
\* the distinct elements of s, in the order of their first occurrence: the
\* insertion order of the keys of Counter(s)
Uniq(s) ==
    LET firsts == { i \in DOMAIN s : \A k \in 1 .. (i - 1) : s[k] # s[i] }
    IN  [ k \in 1 .. Cardinality(firsts) |-> s[Nth(firsts, k)] ]

Count(s, x) == Cardinality({ i \in DOMAIN s : s[i] = x })

\* Counter(items): the entries [key, count] in insertion order
Counter(items) ==
    LET keys == Uniq(items)
    IN  [ i \in DOMAIN keys |-> [ key |-> keys[i], count |-> Count(items, keys[i]) ] ]

\* most_common with entries of equal count in reverse insertion order
most_common_unstable(counter, n) ==
    LET Before(i, j) == \/ counter[i].count > counter[j].count
                        \/ counter[i].count = counter[j].count /\ i > j
        rank(i) == Cardinality({ j \in DOMAIN counter : Before(j, i) })
    IN  [ r \in 1 .. Min(n, Len(counter)) |->
            counter[CHOOSE i \in DOMAIN counter : rank(i) = r - 1] ]

\* Counter.most_common(n): heapq.nlargest(n, items, key=count), which is
\* sorted(items, key=count, reverse=True)[:n]; the sort is stable, so entries
\* of equal count keep their insertion order
most_common(counter, n) ==
    LET Before(i, j) == \/ counter[i].count > counter[j].count
                        \/ counter[i].count = counter[j].count /\ i < j
        rank(i) == Cardinality({ j \in DOMAIN counter : Before(j, i) })
    IN  [ r \in 1 .. Min(n, Len(counter)) |->
            counter[CHOOSE i \in DOMAIN counter : rank(i) = r - 1] ]

\* combinations_with_replacement in place of combinations: self-pairs included
combinations_with_self(n, i, j, acc) ==
    LET pairs == { p \in (1 .. n) \X (1 .. n) : p[1] <= p[2] }
        Before(p, q) == p[1] < q[1] \/ (p[1] = q[1] /\ p[2] < q[2])
    IN  [ k \in 1 .. Cardinality(pairs) |->
            CHOOSE p \in pairs : Cardinality({ q \in pairs : Before(q, p) }) = k - 1 ]

\* itertools.combinations(range(1, n + 1), 2), in the order it yields them
RECURSIVE combinations(_, _, _, _)
combinations(n, i, j, acc) ==
    IF i >= n THEN acc
    ELSE IF j > n THEN combinations(n, i + 1, i + 2, acc)
    ELSE combinations(n, i, j + 1, Append(acc, << i, j >>))

\* the concatenation of the sequences of ss; ss is halved so that the
\* evaluation stays shallow on long sequences, and so is s in SumSeq
RECURSIVE Concat(_)
Concat(ss) ==
    IF ss = << >> THEN << >>
    ELSE IF Len(ss) = 1 THEN ss[1]
    ELSE Concat(SubSeq(ss, 1, Len(ss) \div 2)) \o Concat(SubSeq(ss, Len(ss) \div 2 + 1, Len(ss)))

RECURSIVE SumSeq(_)
SumSeq(s) ==
    IF s = << >> THEN 0
    ELSE IF Len(s) = 1 THEN s[1]
    ELSE SumSeq(SubSeq(s, 1, Len(s) \div 2)) + SumSeq(SubSeq(s, Len(s) \div 2 + 1, Len(s)))

\* " ".join(tokens)
RECURSIVE join(_)
join(tokens) ==
    IF tokens = << >> THEN << >>
    ELSE IF Len(tokens) = 1 THEN tokens[1]
    ELSE tokens[1] \o << " " >> \o join(Tail(tokens))

(***************************************************************************)
(* analyze.py: compute_global_statistics                                   *)
(*                                                                         *)
(* A loaded document is [_filename, text_type, text]: text_type is "str"   *)
(* (the value of "text" is the string text), "absent" (the object has no   *)
(* "text" key) or "other" (the value of "text" is not a string).           *)
(***************************************************************************)
TopWords == 100
TopNgrams == 50
ComplexLen == 7

\* d.get("text", "")
GetText(d) == IF d.text_type = "str" THEN d.text ELSE << >>

\* tokenize(text) calls text.lower(): a "text" that is not a string has no
\* such method and the AttributeError leaves compute_global_statistics
StatisticsRaise(docs) == \E i \in DOMAIN docs : docs[i].text_type = "other"

\* per_doc_tokens, in insertion order (the filenames of docs are distinct)
per_doc_tokens(docs) ==
    [ i \in DOMAIN docs |-> [ name |-> docs[i]._filename,
                              tokens |-> tokenize(GetText(docs[i])) ] ]

all_tokens(docs) == Concat([ i \in DOMAIN docs |-> tokenize(GetText(docs[i])) ])

\* total_words counting each document's distinct tokens
total_words_distinct(docs) ==
    SumSeq([ i \in DOMAIN docs |-> Cardinality(Range(tokenize(GetText(docs[i])))) ])

total_words(docs) == SumSeq([ i \in DOMAIN docs |-> Len(tokenize(GetText(docs[i]))) ])

total_word_len(docs) ==
    SumSeq([ i \in DOMAIN docs |->
               LET toks == tokenize(GetText(docs[i]))
               IN  SumSeq([ k \in DOMAIN toks |-> Len(toks[k]) ]) ])

total_sentences(docs) ==
    SumSeq([ i \in DOMAIN docs |-> Len(split_sentences(GetText(docs[i]))) ])

word_counts(docs) == Counter(all_tokens(docs))

top_100_words(docs) ==
    LET top_100 == most_common(word_counts(docs), TopWords)
        tw == total_words(docs)
    IN  [ i \in DOMAIN top_100 |->
            [ word |-> top_100[i].key,
              count |-> top_100[i].count,
              frequency |-> IF tw # 0 THEN Frac(top_100[i].count, tw) ELSE Zero ] ]

\* the windows taken over the corpus as one token list
ngram_counts_across(docs, n) == Counter(ngrams(all_tokens(docs), n))

\* bigram_counts / trigram_counts: one Counter updated document by document
ngram_counts(docs, n) ==
    LET pdt == per_doc_tokens(docs)
    IN  Counter(Concat([ i \in DOMAIN pdt |-> ngrams(pdt[i].tokens, n) ]))

top_ngrams(docs, n) ==
    LET top == most_common(ngram_counts(docs, n), TopNgrams)
    IN  [ i \in DOMAIN top |-> [ ngram |-> join(top[i].key), count |-> top[i].count ] ]

similarity_rows(docs) ==
    LET pdt == per_doc_tokens(docs)
        pairs == combinations(Len(pdt), 1, 2, << >>)
    IN  [ k \in DOMAIN pairs |->
            [ doc1 |-> pdt[pairs[k][1]].name,
              doc2 |-> pdt[pairs[k][2]].name,
              similarity |-> jaccard_similarity(pdt[pairs[k][1]].tokens,
                                                pdt[pairs[k][2]].tokens) ] ]

readability(docs) ==
    LET tw == total_words(docs)
        ts == total_sentences(docs)
        toks == all_tokens(docs)
        complex_words == Cardinality({ i \in DOMAIN toks : Len(toks[i]) >= ComplexLen })
        \* avg_sentence_length and 100.0 * complex_words / total_words as n / d
        asl == IF ts # 0 THEN [ n |-> tw, d |-> ts ] ELSE [ n |-> 0, d |-> 1 ]
        cpx == IF tw # 0 THEN [ n |-> 100 * complex_words, d |-> tw ] ELSE [ n |-> 0, d |-> 1 ]
    IN  [ avg_sentence_length |-> RoundMilli(asl.n, asl.d),
          avg_word_length |-> IF tw # 0 THEN RoundMilli(total_word_len(docs), tw) ELSE 0,
          \* 0.4 * (avg_sentence_length + 100.0 * complex_words / total_words)
          complexity_score |-> RoundMilli(2 * (asl.n * cpx.d + cpx.n * asl.d),
                                          5 * asl.d * cpx.d) ]

\* the report of a non-empty corpus none of whose texts raises
compute_global_statistics(docs) ==
    [ documents_processed |-> Len(docs),
      total_words |-> total_words(docs),
      unique_words |-> Len(word_counts(docs)),
      top_100_words |-> top_100_words(docs),
      document_similarity |-> similarity_rows(docs),
      top_bigrams |-> top_ngrams(docs, 2),
      top_trigrams |-> top_ngrams(docs, 3),
      readability |-> readability(docs) ]

\* the report main() writes when load_processed_docs() returns no document
EmptyReport ==
    [ documents_processed |-> 0,
      total_words |-> 0,
      unique_words |-> 0,
      top_100_words |-> << >>,
      document_similarity |-> << >>,
      top_bigrams |-> << >>,
      top_trigrams |-> << >>,
      readability |-> [ avg_sentence_length |-> 0, avg_word_length |-> 0,
                        complexity_score |-> 0 ] ]

(***************************************************************************)
(* process.py: strip_html and compute_statistics                           *)
(***************************************************************************)
\* s[i .. i + Len(lit) - 1] equals lit, letter case ignored (re.IGNORECASE)
MatchesAt(s, i, lit) ==
    /\ i + Len(lit) - 1 <= Len(s)
    /\ \A k \in DOMAIN lit : LowerChar(s[i + k - 1]) = lit[k]

\* the least index >= i of s where lit starts (case ignored), 0 if none
FirstAt(s, i, lit) ==
    LET hits == { k \in i .. Len(s) : MatchesAt(s, k, lit) }
    IN  IF hits = {} THEN 0 ELSE CHOOSE k \in hits : \A m \in hits : k <= m

\* where a match of <tag[^>]*>.*?</tag> that starts at i ends, 0 if none starts
\* there: [^>]* runs to the first ">", .*? to the first closing tag after it
BlockEnd(s, i, open, close) ==
    IF ~MatchesAt(s, i, open) THEN 0
    ELSE LET gt == FirstIn(s, i + Len(open), {">"})
         IN  IF gt = 0 THEN 0
             ELSE LET c == FirstAt(s, gt + 1, close)
                  IN  IF c = 0 THEN 0 ELSE c + Len(close) - 1

\* re.sub(r'<tag[^>]*>.*?</tag>', '', s, flags=re.DOTALL | re.IGNORECASE)
RECURSIVE RemoveBlocks(_, _, _, _, _)
RemoveBlocks(s, i, open, close, acc) ==
    IF i > Len(s) THEN acc
    ELSE LET e == BlockEnd(s, i, open, close)
         IN  IF e # 0 THEN RemoveBlocks(s, e + 1, open, close, acc)
             ELSE RemoveBlocks(s, i + 1, open, close, Append(acc, s[i]))

ScriptOpen == << "<", "s", "c", "r", "i", "p", "t" >>
ScriptClose == << "<", "/", "s", "c", "r", "i", "p", "t", ">" >>
StyleOpen == << "<", "s", "t", "y", "l", "e" >>
StyleClose == << "<", "/", "s", "t", "y", "l", "e", ">" >>
Href == << "h", "r", "e", "f", "=" >>
Src == << "s", "r", "c", "=" >>

\* the characters [^'" >] excludes
ValueStop == { "'", "\"", " ", ">" }

\* re.findall(attr + r'[\'"]?([^\'" >]+)', s, flags=re.IGNORECASE): the values,
\* in the order of the scan; a match starting at i takes an optional quote and
\* then the maximal non-empty run of value characters
RECURSIVE FindAttr(_, _, _, _)
FindAttr(s, i, attr, acc) ==
    IF i > Len(s) THEN acc
    ELSE IF ~MatchesAt(s, i, attr) THEN FindAttr(s, i + 1, attr, acc)
    ELSE LET p == i + Len(attr)
             q == IF p <= Len(s) /\ s[p] \in { "'", "\"" } THEN p + 1 ELSE p
             e == RunEnd(s, q, ValueStop)
         IN  IF e >= q THEN FindAttr(s, e + 1, attr, Append(acc, SubSeq(s, q, e)))
             ELSE FindAttr(s, i + 1, attr, acc)

\* re.sub(r'<[^>]+>', ' ', s)
RECURSIVE RemoveTags(_, _, _)
RemoveTags(s, i, acc) ==
    IF i > Len(s) THEN acc
    ELSE LET gt == IF s[i] = "<" THEN FirstIn(s, i + 1, {">"}) ELSE 0
         IN  IF gt > i + 1 THEN RemoveTags(s, gt + 1, Append(acc, " "))
             ELSE RemoveTags(s, i + 1, Append(acc, s[i]))

\* re.sub(r'\s+', ' ', s).strip()
RECURSIVE CollapseSpace(_, _, _)
CollapseSpace(s, i, acc) ==
    IF i > Len(s) THEN acc
    ELSE IF s[i] \in Whitespace
         THEN CollapseSpace(s, i + 1, IF acc # << >> /\ acc[Len(acc)] = " "
                                      THEN acc ELSE Append(acc, " "))
    ELSE CollapseSpace(s, i + 1, Append(acc, s[i]))

strip(s) ==
    LET keep == { i \in DOMAIN s : s[i] \notin Whitespace }
    IN  IF keep = {} THEN << >>
        ELSE SubSeq(s, CHOOSE i \in keep : \A k \in keep : i <= k,
                       CHOOSE i \in keep : \A k \in keep : i >= k)

\* the values harvested from the markup as read from the file
strip_html_harvest_original(html_content) ==
    LET no_script == RemoveBlocks(html_content, 1, ScriptOpen, ScriptClose, << >>)
        no_style == RemoveBlocks(no_script, 1, StyleOpen, StyleClose, << >>)
    IN  [ text |-> strip(CollapseSpace(RemoveTags(no_style, 1, << >>), 1, << >>)),
          links |-> FindAttr(html_content, 1, Href, << >>),
          images |-> FindAttr(html_content, 1, Src, << >>) ]

strip_html(html_content) ==
    LET no_script == RemoveBlocks(html_content, 1, ScriptOpen, ScriptClose, << >>)
        no_style == RemoveBlocks(no_script, 1, StyleOpen, StyleClose, << >>)
    IN  [ text |-> strip(CollapseSpace(RemoveTags(no_style, 1, << >>), 1, << >>)),
          links |-> FindAttr(no_style, 1, Href, << >>),
          images |-> FindAttr(no_style, 1, Src, << >>) ]

\* where a match of <\s*p\b[^>]*> that starts at i ends, 0 if none starts there
ParaTagEnd(s, i) ==
    IF i > Len(s) \/ s[i] # "<" THEN 0
    ELSE LET p == RunEnd(s, i + 1, { c \in Range(s) : c \notin Whitespace }) + 1
         IN  IF p > Len(s) \/ LowerChar(s[p]) # "p" THEN 0
             ELSE IF p < Len(s) /\ s[p + 1] \in WordChars THEN 0
             ELSE FirstIn(s, p + 1, {">"})

\* len(re.findall(r'<\s*p\b[^>]*>', s, flags=re.IGNORECASE))
RECURSIVE CountParaTags(_, _)
CountParaTags(s, i) ==
    IF i > Len(s) THEN 0
    ELSE LET e == ParaTagEnd(s, i)
         IN  IF e # 0 THEN 1 + CountParaTags(s, e + 1) ELSE CountParaTags(s, i + 1)

\* the words counted as text.split() would
compute_statistics_split_words(text, original_html) ==
    LET words == WordRuns(text)
        word_count == Cardinality({ i \in DOMAIN text :
                                      /\ text[i] \notin Whitespace
                                      /\ (i = 1 \/ text[i - 1] \in Whitespace) })
        sentences == SelectSeq(SplitAfterEnd(text),
                               LAMBDA x : x # << >>)
        para_tags == CountParaTags(original_html, 1)
    IN  [ word_count |-> word_count,
          sentence_count |-> Len(sentences),
          paragraph_count |-> IF para_tags = 0 THEN (IF text # << >> THEN 1 ELSE 0)
                              ELSE para_tags,
          avg_word_length |-> IF word_count # 0
                              THEN RoundMilli(SumSeq([ k \in DOMAIN words |-> Len(words[k]) ]),
                                              word_count)
                              ELSE 0 ]

compute_statistics(text, original_html) ==
    LET words == WordRuns(text)
        word_count == Len(words)
        sentences == SelectSeq(SplitAfterEnd(text),
                               LAMBDA x : x # << >>)
        para_tags == CountParaTags(original_html, 1)
    IN  [ word_count |-> word_count,
          sentence_count |-> Len(sentences),
          paragraph_count |-> IF para_tags = 0 THEN (IF text # << >> THEN 1 ELSE 0)
                              ELSE para_tags,
          avg_word_length |-> IF word_count # 0
                              THEN RoundMilli(SumSeq([ k \in DOMAIN words |-> Len(words[k]) ]),
                                              word_count)
                              ELSE 0 ]

(***************************************************************************)
(* The shared store and the three processes                                *)
(***************************************************************************)
VARIABLES
    urls_file,        \* /shared/input/urls.txt: << >> absent, << n >> holding n URLs
    raw,              \* /shared/raw: file name -> content (HTML text)
    fetch_marker,     \* /shared/status/fetch_complete.json
    processed,        \* /shared/processed: file name -> content
    process_marker,   \* /shared/status/process_complete.json
    report,           \* /shared/analysis/final_report.json: << >> absent, << r >>
    fetchPc, urls, fetch_i, content, results,             \* fetcher
    procPc, html_files, proc_i, result, processed_count,  \* processor
    proc_log,                                             \* processor's log lines
    anaPc, files, ana_i, docs, word_counts_local          \* analyzer

storeVars == << urls_file, raw, fetch_marker, processed, process_marker, report >>
fetchVars == << fetchPc, urls, fetch_i, content, results >>
procVars == << procPc, html_files, proc_i, result, processed_count, proc_log >>
anaVars == << anaPc, files, ana_i, docs, word_counts_local >>
vars == << storeVars, fetchVars, procVars, anaVars >>

\* ---- file names -------------------------------------------------------
RECURSIVE Decimal(_)
Decimal(n) == IF n < 10 THEN << DigitSeq[n + 1] >>
              ELSE Decimal(n \div 10) \o << DigitSeq[(n % 10) + 1] >>

DotHtml == << ".", "h", "t", "m", "l" >>
DotJson == << ".", "j", "s", "o", "n" >>
PageStem(i) == << "p", "a", "g", "e", "_" >> \o Decimal(i)

\* f"/shared/raw/page_{i}.html"
PageHtml(i) == PageStem(i) \o DotHtml

\* os.path.splitext(os.path.basename(html_path))[0] + ".json"
OutName(html_name) == SubSeq(html_name, 1, Len(html_name) - Len(DotHtml)) \o DotJson

\* ---- file contents ----------------------------------------------------
\* A file of /shared/processed is [kind, text_type, text, rest]:
\*   kind "notjson"   - json.load raises (also a file open for writing or left
\*                      half written: no proper prefix of a JSON object parses)
\*   kind "nonobject" - valid JSON that is no object (array, string, number, null)
\*   kind "object"    - a JSON object; text_type/text describe its "text" key and
\*                      rest holds the other fields process_one_file writes
NotJson == [ kind |-> "notjson", text_type |-> "absent", text |-> << >>, rest |-> << >> ]
NonObject == [ kind |-> "nonobject", text_type |-> "absent", text |-> << >>, rest |-> << >> ]
ObjectFile(text_type, text) ==
    [ kind |-> "object", text_type |-> text_type, text |-> text, rest |-> << >> ]

\* contents /shared/processed may hold before the run starts
StaleContents ==
    { NotJson, NonObject,
      ObjectFile("str", << "B", " ", "a" >>),
      ObjectFile("absent", << >>),
      ObjectFile("other", << >>) }

AJson == << "a" >> \o DotJson
StaleNames == { AJson, OutName(PageHtml(1)) }

\* names in ascending order by code point
SortNames(names) ==
    LET rank == [ x \in names |-> Cardinality({ y \in names : StrLess(y, x) }) ]
    IN  [ k \in 1 .. Cardinality(names) |-> CHOOSE x \in names : rank[x] = k - 1 ]

\* the names a file of /shared/raw and of /shared/processed can have, and
\* their order, evaluated once
RawNames == { PageHtml(i) : i \in 1 .. MaxUrls }
ProcessedNames == StaleNames \cup { OutName(PageHtml(i)) : i \in 1 .. MaxUrls }
StoreNames == RawNames \cup ProcessedNames
SortedStoreNames == SortNames(StoreNames)

\* the sets of files one of the two directories can hold
Directories == (SUBSET RawNames) \cup (SUBSET ProcessedNames)

\* the orders in which a directory may list the files of names
RECURSIVE Listings(_)
Listings(names) ==
    IF names = {} THEN { << >> }
    ELSE UNION { { << x >> \o rest : rest \in Listings(names \ { x }) } : x \in names }

\* glob.glob(pattern): the matching files, in the order the directory yields
\* them, which is any order
glob(names) == Listings(names)

\* the listing left as the directory yielded it
sorted_as_listed(listing) == listing

\* sorted(listing): the (distinct) names of listing in ascending order; a
\* listing of files of StoreNames is sorted by selecting from the sorted
\* StoreNames
sorted(listing) ==
    LET names == Range(listing)
        Listed(x) == x \in names
    IN  IF names \subseteq StoreNames THEN SelectSeq(SortedStoreNames, Listed)
        ELSE SortNames(names)

\* sorted(glob.glob(pattern)) for every listing glob can return, evaluated
\* once for the sets of files a directory can hold
SortedListings == [ names \in Directories |-> { sorted(listing) : listing \in glob(names) } ]

sorted_glob(names) ==
    IF names \subseteq RawNames \/ names \subseteq ProcessedNames THEN SortedListings[names]
    ELSE { sorted(listing) : listing \in glob(names) }

\* documents a fetch may return
HtmlSamples ==
    { << "<", "p", ">", "T", "h", "e", " ", "c", "a", "t", "<", "/", "p", ">" >>,
      << "B", " ", "a" >> }

\* process_one_file(html_path), the file holding html (processed_at left out)
Extract(html) ==
    LET s == strip_html(html)
    IN  [ text |-> s.text, links |-> s.links, images |-> s.images,
          statistics |-> compute_statistics(s.text, html) ]

\* Extract of the documents a fetch may return, evaluated once
Extracted == [ html \in HtmlSamples |-> Extract(html) ]

process_one_file(html_name, html) ==
    LET e == IF html \in HtmlSamples THEN Extracted[html] ELSE Extract(html)
    IN  [ kind |-> "object", text_type |-> "str", text |-> e.text,
          rest |-> << [ source_file |-> html_name,
                        statistics |-> e.statistics,
                        links |-> e.links,
                        images |-> e.images ] >> ]

NoMarker == [ state |-> "absent", processed_files |-> 0 ]

Init ==
    /\ urls_file = << >>
    /\ raw = << >>
    /\ fetch_marker = [ state |-> "absent", successful |-> 0, failed |-> 0 ]
    /\ \E names \in SUBSET StaleNames : processed \in [ names -> StaleContents ]
    /\ process_marker = NoMarker
    /\ report = << >>
    /\ fetchPc = "wait_input" /\ urls = 0 /\ fetch_i = 1 /\ content = << >>
    /\ results = << >>
    /\ procPc = "wait" /\ html_files = << >> /\ proc_i = 1 /\ result = << >>
    /\ processed_count = 0 /\ proc_log = << >>
    /\ anaPc = "wait" /\ files = << >> /\ ana_i = 1 /\ docs = << >>
    /\ word_counts_local = << >>

\* os.path.exists(path) of a marker: true from the moment open(path, "w")
\* has created the file
Exists(marker) == marker.state # "absent"

(***************************************************************************)
(* The operator of the pipeline puts urls.txt in place                     *)
(***************************************************************************)
ProvideUrls ==
    /\ urls_file = << >>
    /\ \E n \in 0 .. MaxUrls : urls_file' = << n >>
    /\ UNCHANGED << raw, fetch_marker, processed, process_marker, report >>
    /\ UNCHANGED << fetchVars, procVars, anaVars >>

(***************************************************************************)
(* fetch.py: main                                                          *)
(***************************************************************************)
\* lines 16-22: the wait for urls.txt ends, the URLs are read
FetcherReadUrls ==
    /\ fetchPc = "wait_input"
    /\ urls_file # << >>
    /\ urls' = urls_file[1]
    /\ fetch_i' = 1
    /\ fetchPc' = "fetch"
    /\ UNCHANGED << storeVars, content, results, procVars, anaVars >>

\* lines 30-36, 44-51: urlopen / read / open of one URL; a failure there is
\* recorded, a success leaves page_i.html created and not yet written
FetcherFetch ==
    /\ fetchPc = "fetch"
    /\ fetch_i <= urls
    /\ \/ /\ results' = Append(results, "failed")
          /\ fetch_i' = fetch_i + 1
          /\ UNCHANGED << raw, content, fetchPc >>
       \/ /\ \E c \in HtmlSamples : content' = c
          /\ raw' = (PageHtml(fetch_i) :> << >>) @@ raw
          /\ fetchPc' = "write"
          /\ UNCHANGED << results, fetch_i >>
    /\ UNCHANGED << urls_file, fetch_marker, processed, process_marker, report >>
    /\ UNCHANGED << urls, procVars, anaVars >>

\* lines 37-51: f.write(content) and close; a failing write leaves the
\* truncated file behind
FetcherWrite ==
    /\ fetchPc = "write"
    /\ \/ /\ raw' = (PageHtml(fetch_i) :> content) @@ raw
          /\ results' = Append(results, "success")
       \/ /\ results' = Append(results, "failed")
          /\ UNCHANGED raw
    /\ content' = << >>
    /\ fetch_i' = fetch_i + 1
    /\ fetchPc' = "fetch"
    /\ UNCHANGED << urls_file, fetch_marker, processed, process_marker, report >>
    /\ UNCHANGED << urls, procVars, anaVars >>

\* line 62: open("/shared/status/fetch_complete.json", 'w')
FetcherMarkerOpen ==
    /\ fetchPc = "fetch"
    /\ fetch_i > urls
    /\ fetch_marker' = [ state |-> "empty", successful |-> 0, failed |-> 0 ]
    /\ fetchPc' = "dump"
    /\ UNCHANGED << urls_file, raw, processed, process_marker, report >>
    /\ UNCHANGED << urls, fetch_i, content, results, procVars, anaVars >>

\* lines 54-63: json.dump(status, f) and close
FetcherMarkerDump ==
    /\ fetchPc = "dump"
    /\ fetch_marker' = [ state |-> "complete",
                         successful |-> Count(results, "success"),
                         failed |-> Count(results, "failed") ]
    /\ fetchPc' = "done"
    /\ UNCHANGED << urls_file, raw, processed, process_marker, report >>
    /\ UNCHANGED << urls, fetch_i, content, results, procVars, anaVars >>

Fetcher ==
    \/ FetcherReadUrls
    \/ FetcherFetch
    \/ FetcherWrite
    \/ FetcherMarkerOpen
    \/ FetcherMarkerDump

(***************************************************************************)
(* process.py: main                                                        *)
(***************************************************************************)
\* the condition that ends the loop of wait_for_fetch_marker
FetchMarkerSeen == Exists(fetch_marker)

\* lines 32-36: the poll loop ends
ProcessorWait ==
    /\ procPc = "wait"
    /\ FetchMarkerSeen
    /\ procPc' = "list"
    /\ UNCHANGED << storeVars, fetchVars, anaVars >>
    /\ UNCHANGED << html_files, proc_i, result, processed_count, proc_log >>

\* lines 116-117, 126: the raw partition is listed
ProcessorList ==
    /\ procPc = "list"
    /\ UNCHANGED << storeVars, fetchVars, anaVars, result, proc_log >>
    /\ proc_i' = 1
    /\ processed_count' = 0
    /\ html_files' \in sorted_glob(DOMAIN raw)
    /\ procPc' = IF html_files' = << >> THEN "empty_marker" ELSE "loop"

\* the empty raw partition ending the run with no marker written
ProcessorEmptyMarkerOpen_return ==
    /\ procPc = "empty_marker"
    /\ procPc' = "done"
    /\ UNCHANGED << storeVars, fetchVars, anaVars >>
    /\ UNCHANGED << html_files, proc_i, result, processed_count, proc_log >>

\* line 119: open(PROCESS_MARKER, "w") on the path of an empty raw partition
ProcessorEmptyMarkerOpen ==
    /\ procPc = "empty_marker"
    /\ process_marker' = [ state |-> "empty", processed_files |-> 0 ]
    /\ procPc' = "empty_dump"
    /\ UNCHANGED << urls_file, raw, fetch_marker, processed, report >>
    /\ UNCHANGED << fetchVars, anaVars >>
    /\ UNCHANGED << html_files, proc_i, result, processed_count, proc_log >>

\* lines 119-124: json.dump of the marker, processed_files: 0, and return
ProcessorEmptyMarkerDump ==
    /\ procPc = "empty_dump"
    /\ process_marker' = [ state |-> "complete", processed_files |-> 0 ]
    /\ procPc' = "done"
    /\ UNCHANGED << urls_file, raw, fetch_marker, processed, report >>
    /\ UNCHANGED << fetchVars, anaVars >>
    /\ UNCHANGED << html_files, proc_i, result, processed_count, proc_log >>

\* ProcessorProcess counting the files attempted: the count also grows when
\* the file fails
ProcessorProcess_counts_attempts ==
    /\ procPc = "loop"
    /\ proc_i <= Len(html_files)
    /\ LET html_path == html_files[proc_i]
       IN  \/ /\ proc_log' = Append(proc_log, [ line |-> "ERROR", file |-> html_path ])
              /\ proc_i' = proc_i + 1
              /\ processed_count' = processed_count + 1
              /\ UNCHANGED << processed, result, procPc >>
           \/ /\ result' = << process_one_file(html_path, raw[html_path]) >>
              /\ processed' = (OutName(html_path) :> NotJson) @@ processed
              /\ procPc' = "write"
              /\ UNCHANGED << proc_i, proc_log, processed_count >>
    /\ UNCHANGED << urls_file, raw, fetch_marker, process_marker, report >>
    /\ UNCHANGED << fetchVars, anaVars, html_files >>

\* lines 128-132, 135-137: process_one_file and the open of write_json; a
\* failure of the read or of the open is logged and the loop goes on, a
\* success leaves the output file created (truncated) and not yet written
ProcessorProcess ==
    /\ procPc = "loop"
    /\ proc_i <= Len(html_files)
    /\ LET html_path == html_files[proc_i]
       IN  \/ /\ proc_log' = Append(proc_log, [ line |-> "ERROR", file |-> html_path ])
              /\ proc_i' = proc_i + 1
              /\ UNCHANGED << processed, result, procPc, processed_count >>
           \/ /\ result' = << process_one_file(html_path, raw[html_path]) >>
              /\ processed' = (OutName(html_path) :> NotJson) @@ processed
              /\ procPc' = "write"
              /\ UNCHANGED << proc_i, proc_log, processed_count >>
    /\ UNCHANGED << urls_file, raw, fetch_marker, process_marker, report >>
    /\ UNCHANGED << fetchVars, anaVars, html_files >>

\* the count raised for a file whose dump failed as well
ProcessorWrite_counts_failed ==
    /\ procPc = "write"
    /\ LET html_path == html_files[proc_i]
       IN  \/ /\ processed' = (OutName(html_path) :> result[1]) @@ processed
              /\ proc_log' = Append(proc_log, [ line |-> "Processed", file |-> html_path ])
           \/ /\ proc_log' = Append(proc_log, [ line |-> "ERROR", file |-> html_path ])
              /\ UNCHANGED processed
    /\ processed_count' = processed_count + 1
    /\ result' = << >>
    /\ proc_i' = proc_i + 1
    /\ procPc' = "loop"
    /\ UNCHANGED << urls_file, raw, fetch_marker, process_marker, report >>
    /\ UNCHANGED << fetchVars, anaVars, html_files >>

\* lines 132-137: json.dump of the result and close, then the count and the
\* log line; a failing dump leaves the partial file behind and is logged
ProcessorWrite ==
    /\ procPc = "write"
    /\ LET html_path == html_files[proc_i]
       IN  \/ /\ processed' = (OutName(html_path) :> result[1]) @@ processed
              /\ processed_count' = processed_count + 1
              /\ proc_log' = Append(proc_log, [ line |-> "Processed", file |-> html_path ])
           \/ /\ proc_log' = Append(proc_log, [ line |-> "ERROR", file |-> html_path ])
              /\ UNCHANGED << processed, processed_count >>
    /\ result' = << >>
    /\ proc_i' = proc_i + 1
    /\ procPc' = "loop"
    /\ UNCHANGED << urls_file, raw, fetch_marker, process_marker, report >>
    /\ UNCHANGED << fetchVars, anaVars, html_files >>

\* the marker written before the loop over the files has ended
ProcessorMarkerOpen_early ==
    /\ procPc = "loop"
    /\ ~Exists(process_marker)
    /\ process_marker' = [ state |-> "empty", processed_files |-> 0 ]
    /\ UNCHANGED << urls_file, raw, fetch_marker, processed, report >>
    /\ UNCHANGED << fetchVars, anaVars, procVars >>

\* line 140: open(PROCESS_MARKER, "w") after the loop
ProcessorMarkerOpen ==
    /\ procPc = "loop"
    /\ proc_i > Len(html_files)
    /\ process_marker' = [ state |-> "empty", processed_files |-> 0 ]
    /\ procPc' = "dump"
    /\ UNCHANGED << urls_file, raw, fetch_marker, processed, report >>
    /\ UNCHANGED << fetchVars, anaVars >>
    /\ UNCHANGED << html_files, proc_i, result, processed_count, proc_log >>

\* lines 140-145: json.dump of the marker, processed_files: processed_count
ProcessorMarkerDump ==
    /\ procPc = "dump"
    /\ process_marker' = [ state |-> "complete", processed_files |-> processed_count ]
    /\ procPc' = "done"
    /\ UNCHANGED << urls_file, raw, fetch_marker, processed, report >>
    /\ UNCHANGED << fetchVars, anaVars >>
    /\ UNCHANGED << html_files, proc_i, result, processed_count, proc_log >>

Processor ==
    \/ ProcessorWait
    \/ ProcessorList
    \/ ProcessorEmptyMarkerOpen
    \/ ProcessorEmptyMarkerDump
    \/ ProcessorProcess
    \/ ProcessorWrite
    \/ ProcessorMarkerOpen
    \/ ProcessorMarkerDump

(***************************************************************************)
(* analyze.py: main                                                        *)
(***************************************************************************)
\* the analyzer polling the marker of the fetcher
ProcessMarkerSeen_wrong_marker == Exists(fetch_marker)

\* the condition that ends the loop of wait_for_process_marker
ProcessMarkerSeen == Exists(process_marker)

\* lines 34-38: the poll loop ends
AnalyzerWait ==
    /\ anaPc = "wait"
    /\ ProcessMarkerSeen
    /\ anaPc' = "list"
    /\ UNCHANGED << storeVars, fetchVars, procVars >>
    /\ UNCHANGED << files, ana_i, docs, word_counts_local >>

\* lines 67-68: the processed partition is listed
AnalyzerList ==
    /\ anaPc = "list"
    /\ anaPc' = "load"
    /\ UNCHANGED << storeVars, fetchVars, procVars, word_counts_local >>
    /\ ana_i' = 1
    /\ docs' = << >>
    /\ files' \in sorted_glob(DOMAIN processed)

\* a file that fails to load standing in the corpus as an empty document
LoadOne_keeps_failed(loaded, name, file) ==
    IF file.kind = "object"
    THEN Append(loaded, [ _filename |-> name, text_type |-> file.text_type,
                          text |-> file.text ])
    ELSE Append(loaded, [ _filename |-> name, text_type |-> "absent", text |-> << >> ])

\* what lines 70-76 do with one file: json.load raises on a file that is not
\* JSON, data["_filename"] = ... raises TypeError on a value that is no
\* object; both are caught and the file is left out
LoadOne(loaded, name, file) ==
    IF file.kind = "object"
    THEN Append(loaded, [ _filename |-> name, text_type |-> file.text_type,
                          text |-> file.text ])
    ELSE loaded

\* lines 69-76: one turn of the loop of load_processed_docs
AnalyzerLoadFile ==
    /\ anaPc = "load"
    /\ ana_i <= Len(files)
    /\ docs' = LoadOne(docs, files[ana_i], processed[files[ana_i]])
    /\ ana_i' = ana_i + 1
    /\ UNCHANGED << storeVars, fetchVars, procVars >>
    /\ UNCHANGED << anaPc, files, word_counts_local >>

\* lines 165-185: no document was loaded, the empty report is written
AnalyzerEmptyReport ==
    /\ anaPc = "load"
    /\ ana_i > Len(files)
    /\ docs = << >>
    /\ report' = << EmptyReport >>
    /\ anaPc' = "done"
    /\ UNCHANGED << urls_file, raw, fetch_marker, processed, process_marker >>
    /\ UNCHANGED << fetchVars, procVars >>
    /\ UNCHANGED << files, ana_i, docs, word_counts_local >>

\* lines 187-191: compute_global_statistics, then the report is written; an
\* exception raised in compute_global_statistics is caught nowhere and ends
\* the process before the report is opened
AnalyzerStatistics ==
    /\ anaPc = "load"
    /\ ana_i > Len(files)
    /\ docs # << >>
    /\ IF StatisticsRaise(docs)
       THEN /\ anaPc' = "crashed"
            /\ UNCHANGED << report, word_counts_local >>
       ELSE /\ report' = << compute_global_statistics(docs) >>
            /\ word_counts_local' = word_counts(docs)
            /\ anaPc' = "done"
    /\ UNCHANGED << urls_file, raw, fetch_marker, processed, process_marker >>
    /\ UNCHANGED << fetchVars, procVars >>
    /\ UNCHANGED << files, ana_i, docs >>

Analyzer ==
    \/ AnalyzerWait
    \/ AnalyzerList
    \/ AnalyzerLoadFile
    \/ AnalyzerEmptyReport
    \/ AnalyzerStatistics

(***************************************************************************)
(* The pipeline: the three processes run side by side                      *)
(***************************************************************************)
Next ==
    \/ ProvideUrls
    \/ Fetcher
    \/ Processor
    \/ Analyzer

Spec == Init /\ [][Next]_vars

\* the pipeline started on an empty /shared/processed
FreshInit == Init /\ processed = << >>

FreshSpec == FreshInit /\ [][Next]_vars

\* every started process keeps taking steps: each step is a finite
\* computation or one poll of a marker.  AnalyzerLoading is the analyzer up
\* to the choice between the empty report and the statistics; the statistics
\* step is left without a fairness condition, so nothing proved under
\* FairSpec relies on it being taken
AnalyzerLoading ==
    \/ AnalyzerWait
    \/ AnalyzerList
    \/ AnalyzerLoadFile
    \/ AnalyzerEmptyReport

FairSpec ==
    Spec /\ WF_vars(Fetcher) /\ WF_vars(Processor) /\ WF_vars(AnalyzerLoading)

(***************************************************************************)
(* The analytics of every small corpus: the analyzer from line 164 on,     *)
(* load_processed_docs() having returned the corpus built here             *)
(***************************************************************************)
CorpusAlphabet == { "a", "B", " ", "." }

\* the k-th file name of a loaded corpus (names in sorted order)
CorpusName(k) == PageStem(k) \o DotJson

CorpusChars(loaded) == SumSeq([ i \in DOMAIN loaded |-> Len(loaded[i].text) ])

StrDoc(name, text) == [ _filename |-> name, text_type |-> "str", text |-> text ]

\* the scenario of the specification: texts "the cat sat" and "the cat ran"
CatSat == << "t", "h", "e", " ", "c", "a", "t", " ", "s", "a", "t" >>
CatRan == << "t", "h", "e", " ", "c", "a", "t", " ", "r", "a", "n" >>
CatCorpus == << StrDoc(CorpusName(1), CatSat), StrDoc(CorpusName(2), CatRan) >>

\* a text of TopWords + 2 distinct two-letter tokens, in descending lexical
\* order, the last of them written twice
BigWord(i) == << LowerSeq[26 - ((i - 1) \div 26)], LowerSeq[26 - ((i - 1) % 26)] >>
BigText ==
    Concat([ i \in 1 .. (TopWords + 2) |-> BigWord(i) \o << " " >> ]) \o BigWord(TopWords + 2)
BigCorpus == << StrDoc(CorpusName(1), BigText) >>

CorpusInit ==
    /\ urls_file = << 0 >>
    /\ raw = << >>
    /\ fetch_marker = [ state |-> "complete", successful |-> 0, failed |-> 0 ]
    /\ processed = << >>
    /\ process_marker = [ state |-> "complete", processed_files |-> 0 ]
    /\ report = << >>
    /\ fetchPc = "done" /\ urls = 0 /\ fetch_i = 1 /\ content = << >>
    /\ results = << >>
    /\ procPc = "done" /\ html_files = << >> /\ proc_i = 1 /\ result = << >>
    /\ processed_count = 0 /\ proc_log = << >>
    /\ anaPc = "load" /\ files = << >> /\ ana_i = 1
    /\ docs \in { << >>, CatCorpus, BigCorpus }
    /\ word_counts_local = << >>

\* one more document, with the empty text
CorpusAddDoc ==
    /\ anaPc = "load"
    /\ Len(docs) < MaxDocs
    /\ CorpusChars(docs) <= MaxChars
    /\ docs' = Append(docs, StrDoc(CorpusName(Len(docs) + 1), << >>))
    /\ UNCHANGED << storeVars, fetchVars, procVars >>
    /\ UNCHANGED << anaPc, files, ana_i, word_counts_local >>

\* one more character in the text of the last document
CorpusAddChar ==
    /\ anaPc = "load"
    /\ docs # << >>
    /\ CorpusChars(docs) < MaxChars
    /\ \E c \in CorpusAlphabet :
         docs' = [ docs EXCEPT ![Len(docs)].text = Append(@, c) ]
    /\ UNCHANGED << storeVars, fetchVars, procVars >>
    /\ UNCHANGED << anaPc, files, ana_i, word_counts_local >>

CorpusNext ==
    \/ CorpusAddDoc
    \/ CorpusAddChar
    \/ AnalyzerEmptyReport
    \/ AnalyzerStatistics

SpecCorpus == CorpusInit /\ [][CorpusNext]_vars

(***************************************************************************)
(* The extraction of every small document: the processor at line 126, the  *)
(* raw partition holding one file built from up to MaxPieces pieces        *)
(***************************************************************************)
\* the two ends of a script block, the opening tag with a src, the two ends
\* of a style block, a link with double quotes, a tag with the same link
\* twice, without quotes and in either letter case, an image with single
\* quotes, text with two words, a paragraph tag and an href outside any tag
HtmlPieces ==
    {
      << "<", "s", "c", "r", "i", "p", "t", " ", "s", "r", "c", "=", "s", ">" >>,
      << "<", "/", "s", "c", "r", "i", "p", "t", ">" >>,
      << "<", "s", "t", "y", "l", "e", ">" >>,
      << "<", "/", "S", "T", "Y", "L", "E", ">" >>,
      << "<", "a", " ", "h", "r", "e", "f", "=", "\"", "x", "\"", ">" >>,
      << "<", "A", " ", "H", "R", "E", "F", "=", "x", " ", "h", "r", "e", "f", "=", "x", ">" >>,
      << "<", "i", "m", "g", " ", "s", "r", "c", "=", "'", "i", "'", ">" >>,
      << "H", "i", " ", "a", "_", "1", ".", " " >>,
      << "<", "p", ">" >>,
      << "h", "r", "e", "f", "=", "y", " " >> }

HtmlInputs ==
    { Concat(ps) : ps \in UNION { [ 1 .. n -> HtmlPieces ] : n \in 0 .. MaxPieces } }

HtmlInit ==
    /\ urls_file = << 1 >>
    /\ raw \in { PageHtml(1) :> html : html \in HtmlInputs }
    /\ fetch_marker = [ state |-> "complete", successful |-> 1, failed |-> 0 ]
    /\ processed = << >>
    /\ process_marker = NoMarker
    /\ report = << >>
    /\ fetchPc = "done" /\ urls = 1 /\ fetch_i = 2 /\ content = << >>
    /\ results = << "success" >>
    /\ procPc = "loop" /\ html_files = << PageHtml(1) >> /\ proc_i = 1 /\ result = << >>
    /\ processed_count = 0 /\ proc_log = << >>
    /\ anaPc = "wait" /\ files = << >> /\ ana_i = 1 /\ docs = << >>
    /\ word_counts_local = << >>

HtmlNext ==
    \/ ProcessorProcess
    \/ ProcessorWrite

SpecHtml == HtmlInit /\ [][HtmlNext]_vars

(***************************************************************************)
(* Properties of the pipeline                                              *)
(***************************************************************************)
\* the raw files the processor's log reports as processed
LoggedProcessed ==
    { proc_log[k].file : k \in { k \in DOMAIN proc_log : proc_log[k].line = "Processed" } }

\* the ProcessedDocument of raw file f stands in the store, complete
FullyWritten(f) ==
    /\ OutName(f) \in DOMAIN processed
    /\ processed[OutName(f)] = process_one_file(f, raw[f])

\* C1: once process_complete.json exists no document file is open, every
\* file the processor counted is fully written, the count the marker gets is
\* the number of those files, and no document is written in or after the
\* step that creates or fills the marker
C1_WriteThenMarker ==
    /\ [](Exists(process_marker) =>
            /\ result = << >>
            /\ procPc \in { "dump", "empty_dump", "done" }
            /\ Cardinality(LoggedProcessed) = processed_count
            /\ \A f \in LoggedProcessed : FullyWritten(f)
            /\ process_marker.state = "complete" =>
                 process_marker.processed_files = Cardinality(LoggedProcessed))
    /\ [][(Exists(process_marker) \/ Exists(process_marker')) =>
            (processed' = processed /\ raw' = raw)]_vars

\* the marker stands over one counted document and one file that failed
C1_Witness ==
    /\ process_marker.state = "complete"
    /\ process_marker.processed_files >= 1
    /\ \E f \in Range(html_files) : ~FullyWritten(f)

\* C2: a stage leaves its wait only in a step taken with the upstream marker
\* in place; with the marker absent the stage is still waiting (it has not
\* ended or failed), has listed and read nothing, and writes no document, no
\* marker and no report
C2_MarkerGating ==
    /\ [][/\ (procPc = "wait" /\ procPc' # "wait") => Exists(fetch_marker)
          /\ (anaPc = "wait" /\ anaPc' # "wait") => Exists(process_marker)
          /\ ~Exists(fetch_marker) => (processed' = processed
                                        /\ process_marker' = process_marker)
          /\ ~Exists(process_marker) => report' = report]_vars
    /\ [](~Exists(fetch_marker) =>
            /\ procPc = "wait" /\ html_files = << >> /\ result = << >>
            /\ proc_log = << >> /\ ~Exists(process_marker))
    /\ [](~Exists(process_marker) =>
            /\ anaPc = "wait" /\ files = << >> /\ docs = << >> /\ report = << >>)

\* both downstream stages have left their wait while the upstream stage is
\* still filling the marker it has created
C2_Witness ==
    /\ fetchPc = "dump" /\ procPc = "dump" /\ anaPc = "load"
    /\ docs # << >>

\* C3: when the marker is written every listed file has been attempted, one
\* log line each in list order, also the files after a failing one, and
\* processed_files is the number of files whose document was written
C3_SuccessCount ==
    process_marker.state = "complete" =>
        /\ proc_i = Len(html_files) + 1
        /\ Len(proc_log) = Len(html_files)
        /\ \A k \in DOMAIN html_files : proc_log[k].file = html_files[k]
        /\ process_marker.processed_files
             = Cardinality({ k \in DOMAIN html_files : FullyWritten(html_files[k]) })
        /\ process_marker.processed_files
             = Cardinality({ k \in DOMAIN proc_log : proc_log[k].line = "Processed" })

\* a marker written after a failing file followed by a file that succeeded
C3_Witness ==
    /\ process_marker.state = "complete"
    /\ Len(html_files) = 2
    /\ proc_log[1].line = "ERROR" /\ proc_log[2].line = "Processed"
    /\ process_marker.processed_files = 1

\* C4: a run that has left its wait and has ended has written its output:
\* the processor its marker, the analyzer its report
C4_NoAbort ==
    /\ procPc = "done" => process_marker.state = "complete"
    /\ anaPc \in { "done", "crashed" } => report # << >>

\* load_processed_docs() has returned
Loaded == (anaPc = "load" /\ ana_i > Len(files)) \/ anaPc \in { "done", "crashed" }

\* the loaded documents are those of the files of names, in file name order
LoadedExactly(names) ==
    /\ { docs[i]._filename : i \in DOMAIN docs } = names
    /\ Len(docs) = Cardinality(names)
    /\ \A i, j \in DOMAIN docs : i < j => StrLess(docs[i]._filename, docs[j]._filename)
    /\ \A i \in DOMAIN docs :
         /\ docs[i].text_type = processed[docs[i]._filename].text_type
         /\ docs[i].text = processed[docs[i]._filename].text

\* the report is the statistics of the loaded documents
ReportOverLoaded ==
    anaPc = "done" =>
        /\ report[1].documents_processed = Len(docs)
        /\ report[1] = IF docs = << >> THEN EmptyReport ELSE compute_global_statistics(docs)

\* C5 as the specification states it: the files that cannot be parsed as
\* JSON are skipped and every other file is loaded, in file name order
C5_OnlyUnparsableSkipped ==
    Loaded => /\ LoadedExactly({ f \in DOMAIN processed : processed[f].kind # "notjson" })
              /\ ReportOverLoaded

\* C5, amended: a file is skipped when it cannot be parsed as JSON or when it
\* parses to a value that is no JSON object; every file holding a JSON
\* object is loaded, in file name order, and a report that gets written is
\* computed over exactly the loaded files
C5_NonObjectsSkippedToo ==
    Loaded => /\ LoadedExactly({ f \in DOMAIN processed : processed[f].kind = "object" })
              /\ ReportOverLoaded

\* a report over a partition whose first file is not JSON and whose later
\* files loaded
C5_Witness ==
    /\ anaPc = "done"
    /\ Len(files) >= 3
    /\ processed[files[1]].kind = "notjson"
    /\ Len(docs) = Len(files) - 1
    /\ report[1].documents_processed = Len(docs)

\* the fetch marker stands over an empty raw partition
NoRawFiles == Exists(fetch_marker) /\ DOMAIN raw = {}

\* both stages have ended, the marker counts no file, the report is the zero
\* report
ZeroOutcome ==
    /\ procPc = "done"
    /\ process_marker = [ state |-> "complete", processed_files |-> 0 ]
    /\ anaPc = "done"
    /\ report = << EmptyReport >>

\* C6 as the specification states it, as far as a finite run shows it: with
\* zero HTML files in raw/ the marker counts 0 and the report the analyzer
\* writes is the zero report
C6_ZeroReport ==
    NoRawFiles =>
        /\ process_marker.state = "complete" => process_marker.processed_files = 0
        /\ anaPc = "done" => report = << EmptyReport >>

\* no file of the processed partition parses to a JSON object
NoObjectFiles == \A f \in DOMAIN processed : processed[f].kind # "object"

\* C6, amended: with the fetch marker in place, zero HTML files in raw/ and
\* no file in processed/ that parses to a JSON object, the processor and the
\* analyzer, however interleaved, end with a marker counting 0 files and the
\* zero report, and neither writes anything else on the way
C6_ZeroReportOnEmptyPartition ==
    /\ (NoRawFiles /\ NoObjectFiles) ~> ZeroOutcome
    /\ []((NoRawFiles /\ NoObjectFiles) =>
            /\ process_marker.state = "complete" => process_marker.processed_files = 0
            /\ report # << >> => report = << EmptyReport >>
            /\ anaPc # "crashed")

\* the zero outcome over a processed partition that holds files, none of
\* which loads
C6_Witness ==
    /\ NoRawFiles /\ NoObjectFiles
    /\ ZeroOutcome
    /\ DOMAIN processed # {}
    /\ urls > 0

\* load_processed_docs() of a run that gets the sorted listing fs
RECURSIVE LoadFiles(_, _)
LoadFiles(fs, loaded) ==
    IF fs = << >> THEN loaded
    ELSE LoadFiles(Tail(fs), LoadOne(loaded, Head(fs), processed[Head(fs)]))

\* C11: a second analyzer run over the same processed files, whatever the
\* order in which the directory lists them to it, loads the same documents
\* in the same order as the run that wrote the report, and its report is
\* equal to that report in every field (processing_timestamp is not part of
\* the modelled report)
C11_Deterministic ==
    anaPc = "done" =>
        \A fs \in sorted_glob(DOMAIN processed) :
            LET second == LoadFiles(fs, << >>)
            IN  /\ second = docs
                /\ report[1] = IF second = << >> THEN EmptyReport
                                ELSE compute_global_statistics(second)

\* a report over three files, two of them loaded, with tied word counts and
\* a similarity row, the directory having six orders to list the files in
C11_Witness ==
    /\ anaPc = "done"
    /\ Cardinality(glob(DOMAIN processed)) >= 6
    /\ Len(docs) >= 2
    /\ report[1].document_similarity # << >>
    /\ \E i, j \in DOMAIN report[1].top_100_words :
         /\ i < j
         /\ report[1].top_100_words[i].count = report[1].top_100_words[j].count

(***************************************************************************)
(* Properties of the analytics                                             *)
(***************************************************************************)
\* the position of the first occurrence of x in s
FirstIndex(s, x) == CHOOSE i \in DOMAIN s : s[i] = x /\ \A k \in 1 .. (i - 1) : s[k] # x

\* the analyzer has written the report of a non-empty corpus
Analyzed == anaPc = "done" /\ report # << >> /\ docs # << >>

\* the tokens of the loaded corpus, document after document
CorpusTokens == Concat([ i \in DOMAIN docs |-> tokenize(GetText(docs[i])) ])

\* C7 as the specification states it: top_100_words is in descending count
\* order and tokens of equal count are in ascending lexical order
C7_TiesLexical ==
    Analyzed =>
        LET top == report[1].top_100_words
        IN  \A i, j \in DOMAIN top :
              i < j => \/ top[i].count > top[j].count
                       \/ /\ top[i].count = top[j].count
                          /\ StrLess(top[i].word, top[j].word)

\* C7, amended: top_100_words holds the min(100, distinct tokens) tokens
\* selected by descending corpus-wide count, each with its count; tokens of
\* equal count appear (and are selected) in the order of their first
\* occurrence in the corpus, documents taken in load order
C7_TiesFirstOccurrence ==
    Analyzed =>
        LET top == report[1].top_100_words
            toks == CorpusTokens
            Ahead(v, w) == \/ Count(toks, v) > Count(toks, w)
                           \/ /\ Count(toks, v) = Count(toks, w)
                              /\ FirstIndex(toks, v) < FirstIndex(toks, w)
        IN  /\ Len(top) = Min(TopWords, Cardinality(Range(toks)))
            /\ \A i \in DOMAIN top : /\ top[i].word \in Range(toks)
                                     /\ top[i].count = Count(toks, top[i].word)
            /\ \A i, j \in DOMAIN top : i < j => Ahead(top[i].word, top[j].word)
            /\ \A w \in Range(toks) \ { top[i].word : i \in DOMAIN top } :
                 \A i \in DOMAIN top : Ahead(top[i].word, w)

\* a report cut at 100 entries in which two tokens of equal count stand in
\* first-occurrence order against their lexical order
C7_Witness ==
    /\ Analyzed
    /\ Len(report[1].top_100_words) = TopWords
    /\ report[1].unique_words > TopWords
    /\ \E i, j \in DOMAIN report[1].top_100_words :
         /\ i < j
         /\ report[1].top_100_words[i].count = report[1].top_100_words[j].count
         /\ StrLess(report[1].top_100_words[j].word, report[1].top_100_words[i].word)

\* the position at which a file was loaded
LoadPosition(name) == CHOOSE i \in DOMAIN docs : docs[i]._filename = name

\* C8: document_similarity holds exactly one row for each of the C(N,2)
\* unordered pairs of distinct loaded documents, no row pairs a document
\* with itself, doc1 is always loaded before doc2, and the rows are ordered
\* by the load position of doc1, then of doc2
C8_PairEnumeration ==
    (anaPc = "done" /\ report # << >>) =>
        LET rows == report[1].document_similarity
            N == Len(docs)
            names == { docs[i]._filename : i \in DOMAIN docs }
        IN  /\ 2 * Len(rows) = N * (N - 1)
            /\ \A k \in DOMAIN rows :
                 /\ rows[k].doc1 \in names /\ rows[k].doc2 \in names
                 /\ rows[k].doc1 # rows[k].doc2
                 /\ LoadPosition(rows[k].doc1) < LoadPosition(rows[k].doc2)
            /\ \A i, j \in DOMAIN docs :
                 i < j => Cardinality({ k \in DOMAIN rows :
                                          { rows[k].doc1, rows[k].doc2 }
                                            = { docs[i]._filename, docs[j]._filename } }) = 1
            /\ \A k, l \in DOMAIN rows :
                 k < l => \/ LoadPosition(rows[k].doc1) < LoadPosition(rows[l].doc1)
                          \/ /\ rows[k].doc1 = rows[l].doc1
                             /\ LoadPosition(rows[k].doc2) < LoadPosition(rows[l].doc2)

\* a report over three or more documents
C8_Witness ==
    /\ Analyzed
    /\ Len(docs) >= 3
    /\ Len(report[1].document_similarity) >= 3

\* C9: the similarity of every row is the Jaccard index of the two distinct
\* token sets: the same in both directions, between 0 and 1, 1 for equal
\* non-empty sets, 0 for disjoint or empty sets, blind to multiplicity; and
\* "the cat sat" against "the cat ran" gives 2/4
C9_Jaccard ==
    Analyzed =>
        LET rows == report[1].document_similarity
        IN  /\ \A k \in DOMAIN rows :
                 LET A == tokenize(GetText(docs[LoadPosition(rows[k].doc1)]))
                     B == tokenize(GetText(docs[LoadPosition(rows[k].doc2)]))
                     sim == rows[k].similarity
                 IN  /\ sim = jaccard_similarity(B, A)
                     /\ sim.den > 0 /\ 0 <= sim.num /\ sim.num <= sim.den
                     /\ sim.num * Cardinality(Range(A) \cup Range(B))
                          = sim.den * Cardinality(Range(A) \cap Range(B))
                     /\ (Range(A) = Range(B) /\ Range(A) # {}) => sim = Frac(1, 1)
                     /\ Range(A) \cap Range(B) = {} => sim = Zero
                     /\ sim = jaccard_similarity(Uniq(A), Uniq(B))
                     /\ sim = jaccard_similarity(A \o A, B \o B \o B)
            /\ docs = CatCorpus => rows = << [ doc1 |-> CorpusName(1), doc2 |-> CorpusName(2),
                                               similarity |-> Frac(2, 4) ] >>

\* the report of the two texts of the scenario, similarity one half
C9_Witness ==
    /\ Analyzed
    /\ docs = CatCorpus
    /\ report[1].document_similarity[1].similarity = [ num |-> 1, den |-> 2 ]

\* C10: the counts of the full frequency mapping add up to total_words,
\* unique_words is the number of its keys, and every top_100_words entry has
\* frequency * total_words = count (frequency 0.0 when total_words is 0)
C10_FrequencyAccounting ==
    (anaPc = "done" /\ report # << >>) =>
        LET r == report[1]
        IN  /\ SumSeq([ i \in DOMAIN word_counts_local |-> word_counts_local[i].count ])
                 = r.total_words
            /\ r.unique_words = Len(word_counts_local)
            /\ \A i, j \in DOMAIN word_counts_local :
                 i # j => word_counts_local[i].key # word_counts_local[j].key
            /\ \A i \in DOMAIN r.top_100_words :
                 LET e == r.top_100_words[i]
                 IN  /\ e.frequency.den > 0
                     /\ e.frequency.num * r.total_words = e.count * e.frequency.den
                     /\ r.total_words = 0 => e.frequency = Zero

\* a report over a corpus in which a token repeats
C10_Witness ==
    /\ Analyzed
    /\ report[1].unique_words >= 2
    /\ report[1].total_words > report[1].unique_words
    /\ \E i \in DOMAIN report[1].top_100_words :
         report[1].top_100_words[i].frequency = [ num |-> 1, den |-> 3 ]

(***************************************************************************)
(* Properties of the extraction                                            *)
(***************************************************************************)
\* where the value of an attribute that starts at i starts: after attr and
\* one optional quote
ValueStart(s, i, attr) ==
    LET p == i + Len(attr)
    IN  IF p <= Len(s) /\ s[p] \in { "'", "\"" } THEN p + 1 ELSE p

ValueEnd(s, i, attr) == RunEnd(s, ValueStart(s, i, attr), ValueStop)

\* the places of s where an attribute attr with a non-empty value stands, an
\* attribute inside the value of an earlier one left out
AttrStarts(s, attr) ==
    LET found[i \in 0 .. Len(s)] ==
            IF i = 0 THEN {}
            ELSE IF /\ MatchesAt(s, i, attr)
                    /\ ValueEnd(s, i, attr) >= ValueStart(s, i, attr)
                    /\ \A j \in found[i - 1] : ValueEnd(s, j, attr) < i
                 THEN found[i - 1] \cup { i }
                 ELSE found[i - 1]
    IN  found[Len(s)]

\* all the values of the attribute attr in s, in document order
AttrValues(s, attr) ==
    LET starts == AttrStarts(s, attr)
    IN  [ k \in 1 .. Cardinality(starts) |->
            SubSeq(s, ValueStart(s, Nth(starts, k), attr), ValueEnd(s, Nth(starts, k), attr)) ]

\* the markup without its script and style blocks
WithoutBlocks(html) ==
    RemoveBlocks(RemoveBlocks(html, 1, ScriptOpen, ScriptClose, << >>),
                 1, StyleOpen, StyleClose, << >>)

\* the processor has extracted the file at hand
Extracting == procPc = "write" /\ result # << >>

ExtractedFrom == raw[html_files[proc_i]]

\* C12 as stated: links and images are all the href and src values of the
\* markup as read from the file, in document order, duplicates kept
C12_HarvestOriginal ==
    Extracting =>
        /\ result[1].rest[1].links = AttrValues(ExtractedFrom, Href)
        /\ result[1].rest[1].images = AttrValues(ExtractedFrom, Src)

\* C12 amended: links and images are all the href and src values of the
\* markup left after the script and style blocks are removed (and before any
\* tag is removed), in document order, duplicates kept
C12_HarvestAfterBlocks ==
    Extracting =>
        /\ result[1].rest[1].links = AttrValues(WithoutBlocks(ExtractedFrom), Href)
        /\ result[1].rest[1].images = AttrValues(WithoutBlocks(ExtractedFrom), Src)

\* a document whose script block carries a src and which has the same link
\* twice: the src of the block is not harvested, the link is, twice
C12_Witness ==
    /\ Extracting
    /\ AttrValues(ExtractedFrom, Src) # << >>
    /\ result[1].rest[1].images = << >>
    /\ Len(result[1].rest[1].links) = 2
    /\ result[1].rest[1].links[1] = result[1].rest[1].links[2]

\* the places of text where a maximal run of word characters ends
WordRunEnds(text) ==
    { i \in DOMAIN text : /\ text[i] \in WordChars
                          /\ (i = Len(text) \/ text[i + 1] \notin WordChars) }

\* C14: for every recovered text, word_count is the number of maximal runs
\* of word characters of that text, and avg_word_length is 0.0 if and only
\* if word_count is 0
C14_WordStatistics ==
    Extracting =>
        LET statistics == result[1].rest[1].statistics
        IN  /\ statistics.word_count = Cardinality(WordRunEnds(result[1].text))
            /\ statistics.avg_word_length = 0 <=> statistics.word_count = 0

\* a text of four words, one of them with a digit and an underscore, two
\* of them separated by "=" only: the average length is 10 / 4
C14_Witness ==
    /\ Extracting
    /\ result[1].rest[1].statistics.word_count = 4
    /\ result[1].rest[1].statistics.avg_word_length = 2500
    /\ "_" \in Range(result[1].text)
    /\ "=" \in Range(result[1].text)

(***************************************************************************)
(* Properties of the n-grams                                               *)
(***************************************************************************)
\* the rows of the report for n = 2 and n = 3
NgramRows(n) == IF n = 2 THEN report[1].top_bigrams ELSE report[1].top_trigrams

\* the windows of n consecutive tokens of one document: the document, the
\* place in it and the text of the window
Windows(n) ==
    UNION { LET toks == tokenize(GetText(docs[i]))
            IN  { << i, k, join(SubSeq(toks, k, k + n - 1)) >> :
                    k \in 1 .. (Len(toks) - n + 1) } : i \in DOMAIN docs }

\* C13: for n = 2 and n = 3, every reported n-gram is a window of n
\* consecutive tokens of one document and its count is the number of such
\* windows (a document with fewer than n tokens has none); the rows are the
\* min(50, distinct windows) most frequent ones in non-increasing count
\* order; the counts of all n-grams, reported or not, add up to the sum
\* over the documents of max(0, tokens - n + 1)
C13_NgramWindows ==
    Analyzed =>
        \A n \in { 2, 3 } :
            LET rows == NgramRows(n)
                wins == Windows(n)
                Occurrences(g) == Cardinality({ w \in wins : w[3] = g })
                reported == { rows[r].ngram : r \in DOMAIN rows }
                distinct == { w[3] : w \in wins }
                per_doc == [ i \in DOMAIN docs |->
                               Max(0, Len(tokenize(GetText(docs[i]))) - n + 1) ]
            IN  /\ reported \subseteq distinct
                /\ \A r \in DOMAIN rows : rows[r].count = Occurrences(rows[r].ngram)
                /\ Cardinality(reported) = Len(rows)
                /\ Len(rows) = Min(TopNgrams, Cardinality(distinct))
                /\ \A r \in DOMAIN rows : r > 1 => rows[r - 1].count >= rows[r].count
                /\ \A g \in distinct \ reported :
                     \A r \in DOMAIN rows : rows[r].count >= Occurrences(g)
                /\ SumSeq([ r \in DOMAIN rows |-> rows[r].count ])
                     + Cardinality({ w \in wins : w[3] \notin reported })
                     = SumSeq(per_doc)

\* three tokens in two documents, two in the first and one in the second:
\* one bigram, counted once, and no trigram
C13_Witness ==
    /\ Analyzed
    /\ Len(docs) = 2
    /\ report[1].total_words = 3
    /\ Len(tokenize(GetText(docs[2]))) = 1
    /\ Len(report[1].top_bigrams) = 1
    /\ report[1].top_bigrams[1].count = 1
    /\ report[1].top_trigrams = << >>

(***************************************************************************)
(* Properties of the readability figures                                   *)
(***************************************************************************)
\* the corpus has no token: no text holds a word character
NoTokens == \A i \in DOMAIN docs : Range(GetText(docs[i])) \cap WordChars = {}

\* C15: the report of a non-empty corpus without tokens is written, with
\* total_words = 0, unique_words = 0, avg_sentence_length = 0.0,
\* avg_word_length = 0.0 and complexity_score = 0.0, no division by zero on
\* the way; and avg_sentence_length is 0.0 whenever the corpus has no
\* sentence
C15_ZeroDenominators ==
    /\ (anaPc # "load" /\ docs # << >> /\ NoTokens) =>
          /\ anaPc = "done"
          /\ report # << >>
          /\ report[1].documents_processed = Len(docs)
          /\ report[1].total_words = 0
          /\ report[1].unique_words = 0
          /\ report[1].top_100_words = << >>
          /\ report[1].readability = [ avg_sentence_length |-> 0, avg_word_length |-> 0,
                                       complexity_score |-> 0 ]
    /\ (Analyzed /\ total_sentences(docs) = 0) =>
          report[1].readability.avg_sentence_length = 0

\* the report of two documents, the first with the empty text and the second
\* with a sentence that has no token
C15_Witness ==
    /\ Analyzed
    /\ NoTokens
    /\ Len(docs) = 2
    /\ docs[1].text = << >>
    /\ "." \in Range(docs[2].text)
    /\ total_sentences(docs) = 1
    /\ report[1].total_words = 0

(***************************************************************************)
(* Properties of the counts across the stages                              *)
(***************************************************************************)
\* C16: started on an empty /shared/processed that only the processor
\* writes, the analyzer ends with a report whose documents_processed is the
\* count the processor ended its loop with, which is the processed_files of
\* the marker once the marker is written; files that failed, also those left
\* half written, are in neither count
C16_CountAgreement ==
    /\ anaPc # "crashed"
    /\ anaPc = "done" =>
          /\ report # << >>
          /\ report[1].documents_processed = processed_count
          /\ process_marker.state = "complete" =>
               report[1].documents_processed = process_marker.processed_files

\* a report and a marker that count one document, over two raw files of
\* which one failed in the middle of the writing of its output file
C16_Witness ==
    /\ anaPc = "done"
    /\ process_marker.state = "complete"
    /\ Len(html_files) = 2
    /\ \E f \in DOMAIN processed : processed[f] = NotJson
    /\ Cardinality(DOMAIN processed) = 2
    /\ process_marker.processed_files = 1
    /\ report[1].documents_processed = 1

=========================================================================
